---- MODULE Spec2Model ----
(***************************************************************************)
(* A model of decadog_core: the response classifier (send_github), the     *)
(* Github client constructor (Client::new), the search operation and the   *)
(* paginated search sequence built on it, the issue-update payload, the    *)
(* cross-backend create_sprint operation and the request urls.             *)
(***************************************************************************)
EXTENDS Integers, Sequences, FiniteSets, TLC

VARIABLES
    \* paginated search sequence
    perPage,      \* the fixed page size of the search (query.per_page)
    nextPage,     \* the cursor: number of the next page to request
    buffer,       \* items of the last fetched page not yet handed out
    exhausted,    \* no further page will be requested
    requests,     \* page numbers requested from the backend, in order
    served,       \* the HTTP responses the backend gave, one per request
    warnings,     \* pages for which the incomplete-results log line was written
    out,          \* what every pull of the consumer returned, in order
    \* response classifier
    sgResponse,   \* the HTTP exchange handed to send_github
    sgResult,     \* what send_github returned for it
    \* Client::new
    newUrl, newToken, newResult,
    \* issue update
    update,       \* the IssueUpdate being built
    wire,         \* the PATCH request sent for it
    \* create_sprint
    pc,           \* position inside create_sprint
    sprintArgs,   \* (repository id, sprint number)
    calls,        \* backend calls issued, in order
    milestones,   \* milestones existing on the issue-tracker backend
    created,      \* create_sprint's local `milestone`
    ret,          \* what create_sprint returned
    \* requests of the Github client
    baseUrl,      \* the client's base_url
    operation,    \* the operation called last, with its arguments
    sent          \* what that call did: the request it sent, or its error

searchVars == <<perPage, nextPage, buffer, exhausted, requests, served, warnings, out>>
sendVars == <<sgResponse, sgResult>>
newVars == <<newUrl, newToken, newResult>>
updateVars == <<update, wire>>
sprintVars == <<pc, sprintArgs, calls, milestones, created, ret>>
requestVars == <<baseUrl, operation, sent>>
vars == <<searchVars, sendVars, newVars, updateVars, sprintVars, requestVars>>

---------------------------------------------------------------------------
(* Bounds of the model.                                                    *)

MaxPageSize == 3
MaxRequests == 4
MaxExtraPulls == 2

---------------------------------------------------------------------------
(* JSON values and serde decoding.                                         *)

Null == [t |-> "null", v |-> 0]
JStr(s) == [t |-> "str", v |-> s]
JNum(n) == [t |-> "num", v |-> n]
JBool(b) == [t |-> "bool", v |-> b]
JArr(s) == [t |-> "arr", v |-> s]

None == <<>>
Some(x) == <<x>>

\* The JSON type each struct field deserializes from.
FieldType ==
    [message |-> "str", errors |-> "arr", documentation_url |-> "str",
     incomplete_results |-> "bool", items |-> "arr",
     id |-> "num", name |-> "str"]

\* A struct schema: the fields that must be present (non-Option) and the
\* Option fields.
GithubClientErrorBody ==
    [required |-> {"message"}, optional |-> {"errors", "documentation_url"}]
GithubSearchResults ==
    [required |-> {"incomplete_results", "items"}, optional |-> {}]
Repository ==
    [required |-> {"id", "name"}, optional |-> {}]

\* response.json::<T>() succeeds: the body is JSON, every non-Option field is
\* present with its type, every Option field is absent, null or of its type.
\* Fields the struct does not name are ignored.
Decodes(body, T) ==
    /\ body.wellformed
    /\ \A f \in T.required :
          f \in DOMAIN body.obj /\ body.obj[f].t = FieldType[f]
    /\ \A f \in T.optional \cap DOMAIN body.obj :
          body.obj[f].t \in {FieldType[f], "null"}

\* The struct response.json::<T>() builds.
Decode(body, T) ==
    [f \in T.required \cup T.optional |->
        IF f \in T.required THEN body.obj[f].v
        ELSE IF f \in DOMAIN body.obj /\ body.obj[f].t # "null"
             THEN Some(body.obj[f].v)
             ELSE None]

---------------------------------------------------------------------------
(* Results and errors.                                                     *)

Ok(x) == [ok |-> TRUE, value |-> x]
Err(e) == [ok |-> FALSE, error |-> e]

\* Error::Reqwest, from a reqwest::Error by `?`
ReqwestError(kind) == [class |-> "Reqwest", kind |-> kind]
\* Error::Github
GithubError(status, body) == [class |-> "Github", status |-> status, error |-> body]
\* Error::Api
ApiError(status) ==
    [class |-> "Api", status |-> status,
     description |-> "Unexpected response status code."]
\* Error::Config
ConfigError(description) == [class |-> "Config", description |-> description]

---------------------------------------------------------------------------
(* The response classifier.                                                *)

is_success(status) == status \in 200..299
is_client_error(status) == status \in 400..499

\* A mutant: every non-success status is read as a client error.
send_github_no_api(response, T) ==
    IF ~response.delivered THEN Err(ReqwestError("transport"))
    ELSE IF is_success(response.status)
    THEN IF Decodes(response.body, T)
         THEN Ok(Decode(response.body, T))
         ELSE Err(ReqwestError("json"))
    ELSE IF Decodes(response.body, GithubClientErrorBody)
         THEN Err(GithubError(response.status,
                              Decode(response.body, GithubClientErrorBody)))
         ELSE Err(ReqwestError("json"))

\* A mutant: the 4xx branch keeps the status and drops the decoded body's
\* documentation_url.
send_github_drop_url(response, T) ==
    IF ~response.delivered THEN Err(ReqwestError("transport"))
    ELSE IF is_success(response.status)
    THEN IF Decodes(response.body, T)
         THEN Ok(Decode(response.body, T))
         ELSE Err(ReqwestError("json"))
    ELSE IF is_client_error(response.status)
    THEN IF Decodes(response.body, GithubClientErrorBody)
         THEN Err(GithubError(response.status,
                  [Decode(response.body, GithubClientErrorBody)
                       EXCEPT !["documentation_url"] = None]))
         ELSE Err(ReqwestError("json"))
    ELSE Err(ApiError(response.status))

\* RequestBuilder::send_github::<T>()
send_github(response, T) ==
    IF ~response.delivered THEN Err(ReqwestError("transport"))
    ELSE IF is_success(response.status)
    THEN IF Decodes(response.body, T)
         THEN Ok(Decode(response.body, T))
         ELSE Err(ReqwestError("json"))
    ELSE IF is_client_error(response.status)
    THEN IF Decodes(response.body, GithubClientErrorBody)
         THEN Err(GithubError(response.status,
                              Decode(response.body, GithubClientErrorBody)))
         ELSE Err(ReqwestError("json"))
    ELSE Err(ApiError(response.status))

---------------------------------------------------------------------------
(* The search operation of the Github client: one request, one page.       *)

\* A mutant: a failed request is read as an empty page.
search_issues_swallow(response) ==
    LET r == send_github(response, GithubSearchResults) IN
    IF ~r.ok THEN [result |-> Ok(<<>>), warned |-> FALSE]
    ELSE [result |-> Ok(r.value["items"]), warned |-> r.value["incomplete_results"]]

\* A mutant: the last item of a page is lost.
search_issues_short(response) ==
    LET r == send_github(response, GithubSearchResults) IN
    IF ~r.ok THEN [result |-> r, warned |-> FALSE]
    ELSE [result |-> Ok(SubSeq(r.value["items"], 1, Len(r.value["items"]) - 1)),
          warned |-> r.value["incomplete_results"]]

\* A mutant: the items come back in reverse.
search_issues_reversed(response) ==
    LET r == send_github(response, GithubSearchResults)
        n == Len(r.value["items"]) IN
    IF ~r.ok THEN [result |-> r, warned |-> FALSE]
    ELSE [result |-> Ok([i \in 1..n |-> r.value["items"][n + 1 - i]]),
          warned |-> r.value["incomplete_results"]]

\* A mutant: incomplete results are an error.
search_issues_strict(response) ==
    LET r == send_github(response, GithubSearchResults) IN
    IF ~r.ok THEN [result |-> r, warned |-> FALSE]
    ELSE IF r.value["incomplete_results"]
    THEN [result |-> Err(ApiError(response.status)), warned |-> TRUE]
    ELSE [result |-> Ok(r.value["items"]), warned |-> FALSE]

\* github::Client::search_issues: the result, and whether the
\* "Incomplete results" line was logged.
search_issues(response) ==
    LET r == send_github(response, GithubSearchResults) IN
    IF ~r.ok THEN [result |-> r, warned |-> FALSE]
    ELSE [result |-> Ok(r.value["items"]), warned |-> r.value["incomplete_results"]]

---------------------------------------------------------------------------
(* The issue-tracker backend as the search sequence sees it.               *)

\* Issue k of the result set, in the backend's order.
IssueAt(page, size, i) == (page - 1) * size + i

\* A 200 response carrying `count` issues of page `page`.
SearchPage(page, size, count, incomplete) ==
    [delivered |-> TRUE, status |-> 200,
     body |-> [wellformed |-> TRUE,
               obj |-> [incomplete_results |-> JBool(incomplete),
                        items |-> JArr([i \in 1..count |-> IssueAt(page, size, i)])]]]

NoBody == [wellformed |-> FALSE, obj |-> <<>>]
NotFoundBody == [wellformed |-> TRUE, obj |-> [message |-> JStr("Not Found")]]

\* The ways a page request fails: no response, a 4xx with a structured
\* body, a 5xx, a 200 whose body is not a search envelope.
FailedResponses ==
    { [delivered |-> FALSE, status |-> 0, body |-> NoBody],
      [delivered |-> TRUE, status |-> 404, body |-> NotFoundBody],
      [delivered |-> TRUE, status |-> 503, body |-> NoBody],
      [delivered |-> TRUE, status |-> 200, body |-> NoBody] }

\* Everything the backend may answer to the request for page `page`.
BackendResponses(page, size) ==
    { SearchPage(page, size, count, incomplete) :
          count \in 0..size, incomplete \in BOOLEAN }
    \cup FailedResponses

---------------------------------------------------------------------------
(* The paginated search sequence (github::paginate::PaginatedSearch).      *)

YieldItem(x) == [kind |-> "Ok", item |-> x]
YieldErr(e) == [kind |-> "Err", error |-> e]
YieldNone == [kind |-> "None"]

\* next() with items of the current page left: hand out the first.
PullBuffered ==
    /\ buffer # <<>>
    /\ out' = Append(out, YieldItem(Head(buffer)))
    /\ buffer' = Tail(buffer)
    /\ UNCHANGED <<perPage, nextPage, exhausted, requests, served, warnings>>
    /\ UNCHANGED <<sendVars, newVars, updateVars, sprintVars, requestVars>>

\* How often the consumer has been told that the sequence has ended.
Ends(o) == Cardinality({i \in 1..Len(o) : o[i].kind = "None"})

\* next() on a sequence that has ended.
PullExhausted ==
    /\ Ends(out) < MaxExtraPulls
    /\ buffer = <<>>
    /\ exhausted
    /\ out' = Append(out, YieldNone)
    /\ UNCHANGED <<perPage, nextPage, buffer, exhausted, requests, served, warnings>>
    /\ UNCHANGED <<sendVars, newVars, updateVars, sprintVars, requestVars>>

\* A mutant: an error item does not end the sequence.
FetchedRetrying(response) ==
    LET r == search_issues(response) IN
    /\ requests' = Append(requests, nextPage)
    /\ served' = Append(served, response)
    /\ warnings' = IF r.warned THEN Append(warnings, nextPage) ELSE warnings
    /\ IF r.result.ok
       THEN /\ nextPage' = nextPage + 1
            /\ exhausted' = (Len(r.result.value) < perPage)
            /\ IF r.result.value = <<>>
               THEN /\ out' = Append(out, YieldNone)
                    /\ buffer' = <<>>
               ELSE /\ out' = Append(out, YieldItem(Head(r.result.value)))
                    /\ buffer' = Tail(r.result.value)
       ELSE /\ out' = Append(out, YieldErr(r.result.error))
            /\ UNCHANGED <<nextPage, exhausted, buffer>>

\* The page request of next(): one call of the client's search operation,
\* whose outcome decides the item returned and the cursor.
Fetched(response) ==
    LET r == search_issues(response) IN
    /\ requests' = Append(requests, nextPage)
    /\ served' = Append(served, response)
    /\ warnings' = IF r.warned THEN Append(warnings, nextPage) ELSE warnings
    /\ IF r.result.ok
       THEN /\ nextPage' = nextPage + 1
            /\ exhausted' = (Len(r.result.value) < perPage)
            /\ IF r.result.value = <<>>
               THEN /\ out' = Append(out, YieldNone)
                    /\ buffer' = <<>>
               ELSE /\ out' = Append(out, YieldItem(Head(r.result.value)))
                    /\ buffer' = Tail(r.result.value)
       ELSE /\ out' = Append(out, YieldErr(r.result.error))
            /\ exhausted' = TRUE
            /\ UNCHANGED <<nextPage, buffer>>

\* next() with nothing buffered and the sequence not ended: request the
\* next page.
PullFetch ==
    /\ buffer = <<>>
    /\ ~exhausted
    /\ Len(requests) < MaxRequests
    /\ \E response \in BackendResponses(nextPage, perPage) : Fetched(response)
    /\ UNCHANGED perPage
    /\ UNCHANGED <<sendVars, newVars, updateVars, sprintVars, requestVars>>

\* Iterator::next of the sequence.
Pull == PullBuffered \/ PullExhausted \/ PullFetch

IdleSearch ==
    /\ perPage = 1 /\ nextPage = 1 /\ buffer = <<>> /\ exhausted = FALSE
    /\ requests = <<>> /\ served = <<>> /\ warnings = <<>> /\ out = <<>>
IdleSend == sgResponse = <<>> /\ sgResult = <<>>
IdleNew == newUrl = <<>> /\ newToken = <<>> /\ newResult = <<>>
IdleUpdate == update = <<>> /\ wire = <<>>
IdleSprint ==
    /\ pc = "idle" /\ sprintArgs = <<>> /\ calls = <<>>
    /\ milestones = {} /\ created = <<>> /\ ret = <<>>

IdleRequest == baseUrl = <<>> /\ operation = <<>> /\ sent = <<>>

\* Client::search_issues: the sequence as constructed, nothing requested.
InitSearch ==
    /\ perPage \in 1..MaxPageSize
    /\ nextPage = 1 /\ buffer = <<>> /\ exhausted = FALSE
    /\ requests = <<>> /\ served = <<>> /\ warnings = <<>> /\ out = <<>>
    /\ IdleSend /\ IdleNew /\ IdleUpdate /\ IdleSprint /\ IdleRequest

NextSearch == Pull

SearchSpec == InitSearch /\ [][NextSearch]_vars

\* The consumer keeps pulling.
FairSearchSpec == SearchSpec /\ WF_vars(NextSearch)

---------------------------------------------------------------------------
(* Vocabulary of the search properties, read off the backend's responses   *)
(* and the consumer's pulls alone.                                         *)

\* The response is a search page (a 200 with a search envelope).
IsPage(response) ==
    /\ response.delivered
    /\ response.status = 200
    /\ response.body.wellformed
    /\ DOMAIN response.body.obj = {"incomplete_results", "items"}
IsFailure(response) == response \in FailedResponses

\* The items and the flag of a page, as the backend sent them.
SentItems(response) == response.body.obj["items"].v
SentFlag(response) == response.body.obj["incomplete_results"].v

\* The items the backend sent on the first n responses, in order.
RECURSIVE SentBefore(_)
SentBefore(n) ==
    IF n = 0 THEN <<>>
    ELSE SentBefore(n - 1) \o
         (IF IsPage(served[n]) THEN SentItems(served[n]) ELSE <<>>)
AllSent == SentBefore(Len(served))

\* The Ok items the consumer received, in order.
RECURSIVE OkItems(_)
OkItems(o) ==
    IF o = <<>> THEN <<>>
    ELSE IF Head(o).kind = "Ok" THEN <<Head(o).item>> \o OkItems(Tail(o))
    ELSE OkItems(Tail(o))

IsPrefix(a, b) == Len(a) <= Len(b) /\ SubSeq(b, 1, Len(a)) = a
HasErr(o) == \E i \in 1..Len(o) : o[i].kind = "Err"
Ended(o) == \E i \in 1..Len(o) : o[i].kind \in {"None", "Err"}

\* The backend answered three requests with N, N and K < N items.
ThreePages ==
    /\ Len(served) >= 3
    /\ \A p \in 1..3 : IsPage(served[p])
    /\ Len(SentItems(served[1])) = perPage
    /\ Len(SentItems(served[2])) = perPage
    /\ Len(SentItems(served[3])) < perPage

\* No request is ahead of demand: page p is requested in order, and only
\* once the consumer holds every item of pages 1..p-1 and has pulled again.
OnDemand ==
    \A p \in 1..Len(requests) :
        /\ requests[p] = p
        /\ Len(out) > Len(SentBefore(p - 1))
        /\ \A i \in 1..Len(SentBefore(p - 1)) :
              out[i] = YieldItem(SentBefore(p - 1)[i])

\* C1: with pages of N, N and K < N items the sequence yields exactly the
\* 2N+K items in the backend's order over exactly 3 requests, and no page
\* is requested before the consumer has pulled all earlier items and one more.
C1_ThreePagesOnDemand ==
    /\ OnDemand
    /\ ThreePages =>
          /\ requests = <<1, 2, 3>>
          /\ ~HasErr(out)
          /\ IsPrefix(OkItems(out), AllSent)
          /\ Ends(out) > 0 =>
                /\ OkItems(out) = AllSent
                /\ Len(OkItems(out)) = 2 * perPage + Len(SentItems(served[3]))
                /\ \A i \in 1..Len(AllSent) : out[i].kind = "Ok"

C1_Witness ==
    /\ ThreePages
    /\ perPage >= 2
    /\ Len(SentItems(served[3])) >= 1
    /\ Ends(out) > 0
    /\ Len(OkItems(out)) = 2 * perPage + Len(SentItems(served[3]))

ShortPage(response) ==
    IsPage(response) /\ Len(SentItems(response)) < perPage
FullPage(response) ==
    IsPage(response) /\ Len(SentItems(response)) = perPage

\* The sequence stops at the first short page, and not before one.
EndsAtShortPage ==
    /\ \A p \in 1..Len(served) : p < Len(served) => FullPage(served[p])
    /\ (Ends(out) > 0 /\ ~HasErr(out)) =>
          (served # <<>> /\ ShortPage(served[Len(served)]))
    /\ (served # <<>> /\ IsPage(served[1]) /\ SentItems(served[1]) = <<>>) =>
          (Len(requests) = 1 /\ OkItems(out) = <<>>)

\* C2: the sequence is finite: once a page shorter than the page size has
\* been served a consumer that keeps pulling is told that the sequence has
\* ended; the sequence ends right after the first short or empty page, and an
\* empty first page means one request and no item.
C2_Finite ==
    /\ []EndsAtShortPage
    /\ (\E p \in 1..Len(served) : ShortPage(served[p])) ~> (Ends(out) > 0)

C2_Witness ==
    /\ Len(served) = 2
    /\ FullPage(served[1])
    /\ ShortPage(served[2])
    /\ SentItems(served[2]) # <<>>
    /\ Ends(out) > 0
    /\ Len(OkItems(out)) = Len(AllSent)

\* The class and status of the error a failed page request is reported as.
ReportedAs(response, e) ==
    IF ~response.delivered THEN e.class = "Reqwest" /\ e.kind = "transport"
    ELSE IF response.status = 404
    THEN e.class = "Github" /\ e.status = 404
    ELSE IF response.status = 503
    THEN e.class = "Api" /\ e.status = 503
    ELSE e.class = "Reqwest" /\ e.kind = "json"

\* C3: when the request for page p fails, the sequence yields the items of
\* pages 1..p-1 in order, then that error as its last item, and requests
\* neither page p again nor any later page.
C3_ErrorEndsSequence ==
    \A p \in 1..Len(served) :
        IsFailure(served[p]) =>
            LET n == Len(SentBefore(p - 1)) IN
            /\ Len(served) = p
            /\ requests = [i \in 1..p |-> i]
            /\ Len(out) >= n + 1
            /\ \A i \in 1..n : out[i] = YieldItem(SentBefore(p - 1)[i])
            /\ out[n + 1].kind = "Err"
            /\ ReportedAs(served[p], out[n + 1].error)
            /\ \A i \in (n + 2)..Len(out) : out[i] = YieldNone

C3_Witness ==
    /\ Len(served) = 2
    /\ perPage >= 2
    /\ ~served[2].delivered
    /\ Len(out) = perPage + 2
    /\ out[perPage + 1].kind = "Err"
    /\ out[perPage + 2].kind = "None"

\* C4: once the sequence has reported its end or yielded an error item,
\* every further pull reports the end and no request is issued any more.
C4_NotRestartable ==
    [][Ended(out) =>
          /\ requests' = requests
          /\ out' # out => out' = Append(out, YieldNone)]_vars

C4_Witness ==
    /\ HasErr(out)
    /\ Len(served) >= 2
    /\ Ends(out) >= 2

\* C9: a page flagged incomplete_results is yielded like any other (all of
\* its items, in order, no error) and is warned about; a page not flagged
\* is not warned about.
C9_IncompleteStillYielded ==
    /\ \A p \in 1..Len(served) :
          IsPage(served[p]) =>
              /\ SentFlag(served[p]) <=>
                    (\E i \in 1..Len(warnings) : warnings[i] = p)
              /\ Len(OkItems(out)) >= Len(SentBefore(p - 1))
                    + (IF SentItems(served[p]) = <<>> THEN 0 ELSE 1)
    /\ \A i, j \in 1..Len(warnings) : warnings[i] = warnings[j] => i = j
    /\ IsPrefix(OkItems(out), AllSent)
    /\ Ended(out) => OkItems(out) = AllSent
    /\ HasErr(out) => IsFailure(served[Len(served)])

C9_Witness ==
    /\ Len(served) = 2
    /\ IsPage(served[1]) /\ SentFlag(served[1]) /\ Len(SentItems(served[1])) >= 2
    /\ IsPage(served[2]) /\ ~SentFlag(served[2]) /\ SentItems(served[2]) # <<>>
    /\ warnings = <<1>>
    /\ Ends(out) > 0
    /\ OkItems(out) = AllSent

---------------------------------------------------------------------------
(* The response classifier on its own: one exchange, decoded as Repository. *)

\* What a field of a JSON body may hold: a value of the field's type, or null.
FieldValues ==
    [message |-> {JStr("Not Found"), JStr("Validation Failed"), Null},
     documentation_url |-> {JStr("https://developer.github.com/v3"), Null},
     id |-> {JNum(7), Null},
     name |-> {JStr("decadog"), Null}]

BodyFields == DOMAIN FieldValues

\* The JSON objects over these fields, any of them absent.
JsonObjects ==
    UNION { { o \in [D -> UNION { FieldValues[f] : f \in D }] :
                \A f \in D : o[f] \in FieldValues[f] } :
            D \in SUBSET BodyFields }

Bodies == { [wellformed |-> TRUE, obj |-> o] : o \in JsonObjects } \cup {NoBody}

\* http::StatusCode of a response.
StatusCodes == 100..599

\* The exchanges self.send() can end in: no response, or a response.
Exchanges ==
    { [delivered |-> TRUE, status |-> st, body |-> b] :
          st \in StatusCodes, b \in Bodies }
    \cup { [delivered |-> FALSE, status |-> 0, body |-> NoBody] }

InitSend ==
    /\ sgResponse \in Exchanges
    /\ sgResult = <<>>
    /\ IdleSearch /\ IdleNew /\ IdleUpdate /\ IdleSprint /\ IdleRequest

\* get_repository's tail: .send_github::<Repository>()
SendGithub ==
    /\ sgResult = <<>>
    /\ sgResult' = <<send_github(sgResponse, Repository)>>
    /\ UNCHANGED <<sgResponse, searchVars, newVars, updateVars, sprintVars, requestVars>>

NextSend == SendGithub

SendSpec == InitSend /\ [][NextSend]_vars

\* The body holds field f with a value that is not null.
Holds(body, f) == f \in DOMAIN body.obj /\ body.obj[f].t # "null"

\* The body is a structured client error body.
Structured(body) ==
    /\ body.wellformed
    /\ Holds(body, "message")

\* The body is a repository.
IsRepository(body) ==
    /\ body.wellformed
    /\ Holds(body, "id")
    /\ Holds(body, "name")

Answered == sgResult # <<>> /\ sgResponse.delivered
Result == sgResult[1]

\* C5 as stated: every 4xx response, whatever its body, fails with
\* Error::Github carrying the response's status.
C5_Original ==
    (Answered /\ sgResponse.status \in 400..499) =>
        /\ ~Result.ok
        /\ Result.error.class = "Github"
        /\ Result.error.status = sgResponse.status

\* C5: a 4xx response whose body is a structured client error body fails
\* with Error::Github carrying the response's status and that body; a 4xx
\* response whose body is not one fails with the deserialization error; no
\* 4xx response gives a success value.
C5_ClientError ==
    (Answered /\ sgResponse.status \in 400..499) =>
        /\ ~Result.ok
        /\ Structured(sgResponse.body) =>
              /\ Result.error.class = "Github"
              /\ Result.error.status = sgResponse.status
              /\ DOMAIN Result.error.error =
                    {"message", "errors", "documentation_url"}
              /\ Result.error.error["message"] = sgResponse.body.obj["message"].v
              /\ Result.error.error["documentation_url"] =
                    (IF Holds(sgResponse.body, "documentation_url")
                     THEN <<sgResponse.body.obj["documentation_url"].v>>
                     ELSE <<>>)
              /\ Result.error.error["errors"] = <<>>
        /\ ~Structured(sgResponse.body) =>
              /\ Result.error.class = "Reqwest"
              /\ Result.error.kind = "json"

C5_Witness ==
    /\ Answered
    /\ sgResponse.status = 422
    /\ Structured(sgResponse.body)
    /\ Holds(sgResponse.body, "documentation_url")
    /\ ~Result.ok
    /\ Result.error.class = "Github"
    /\ Result.error.error["message"] = "Validation Failed"

\* C6: a 2xx response gives the decoded value when the body matches the
\* expected type and the deserialization error when it does not; a response
\* that is neither 2xx nor 4xx gives Error::Api with its status whatever the
\* body; the result is always a complete value or an error.
C6_SuccessAndUnexpected ==
    Answered =>
        /\ sgResponse.status \in 200..299 =>
              IF IsRepository(sgResponse.body)
              THEN /\ Result.ok
                   /\ DOMAIN Result.value = {"id", "name"}
                   /\ Result.value["id"] = sgResponse.body.obj["id"].v
                   /\ Result.value["name"] = sgResponse.body.obj["name"].v
              ELSE /\ ~Result.ok
                   /\ Result.error.class = "Reqwest"
                   /\ Result.error.kind = "json"
        /\ sgResponse.status \notin (200..299) \cup (400..499) =>
              /\ ~Result.ok
              /\ Result.error.class = "Api"
              /\ Result.error.status = sgResponse.status
        /\ Result.ok => sgResponse.status \in 200..299

C6_Witness ==
    /\ Answered
    /\ sgResponse.status = 503
    /\ Structured(sgResponse.body)
    /\ ~Result.ok
    /\ Result.error.class = "Api"
    /\ Result.error.status = 503

---------------------------------------------------------------------------
(* Client::new.  Strings are sequences of characters.                      *)

MaxUrlLen == 3
MaxTokenLen == 2

\* All strings over an alphabet up to a length.
Strings(alphabet, maxLen) == UNION { [1..n -> alphabet] : n \in 0..maxLen }

\* a contains b as a substring.
Contains(a, b) ==
    \E i \in 1..(Len(a) - Len(b) + 1) : SubSeq(a, i, i + Len(b) - 1) = b

TokenPrefix == <<"t", "o", "k", "e", "n", " ">>
InvalidTokenMessage ==
    <<"I", "n", "v", "a", "l", "i", "d", " ", "G", "i", "t", "h",
     "u", "b", " ", "t", "o", "k", "e", "n", " ", "f", "o", "r",
     " ", "A", "u", "t", "h", "o", "r", "i", "z", "a", "t", "i",
     "o", "n", " ", "h", "e", "a", "d", "e", "r", ".">>
InvalidUrlPrefix ==
    <<"I", "n", "v", "a", "l", "i", "d", " ", "G", "i", "t", "h",
     "u", "b", " ", "b", "a", "s", "e", " ", "u", "r", "l", " ">>
AuthorizationHeader ==
    <<"A", "u", "t", "h", "o", "r", "i", "z", "a", "t", "i", "o",
     "n", " ", "h", "e", "a", "d", "e", "r">>
MockUrl ==
    <<"h", "t", "t", "p", "s", ":", "/", "/", "a", "p", "i", ".",
     "m", "y", "g", "i", "t", "h", "u", "b", ".", "c", "o", "m",
     "/">>
NoHostUrl == <<"h", "t", "t", "p", "s", ":", "/", "/">>

\* The byte of a character.
ByteOf(c) ==
    CASE c = "\t" -> 9
      [] c = "\n" -> 10
      [] c = " " -> 32
      [] OTHER -> 97

\* HeaderValue: a byte is visible ASCII or above, or a tab.
is_valid_header_byte(b) == (b >= 32 /\ b # 127) \/ b = 9

\* str::parse::<HeaderValue>()
HeaderValue_parse(text) ==
    IF \A i \in 1..Len(text) : is_valid_header_byte(ByteOf(text[i]))
    THEN Ok(text)
    ELSE Err("InvalidHeaderValue")

Alpha == {"a", "h", "t", "p", "s"}
SchemeChars == Alpha \cup {"1", "+", "-", "."}
SpecialSchemes == {<<"h", "t", "t", "p">>, <<"h", "t", "t", "p", "s">>}

\* The text after the leading slashes.
RECURSIVE SkipSlashes(_)
SkipSlashes(text) ==
    IF text # <<>> /\ Head(text) = "/" THEN SkipSlashes(Tail(text)) ELSE text

\* Url::parse without a base: the text must start with a scheme and a colon;
\* a special scheme needs a host after it.
Url_parse(text) ==
    LET colons == { i \in 1..Len(text) : text[i] = ":" }
        c == CHOOSE i \in colons : \A j \in colons : i <= j
        scheme == SubSeq(text, 1, c - 1)
        rest == SubSeq(text, c + 1, Len(text))
    IN  IF colons = {} THEN Err("RelativeUrlWithoutBase")
        ELSE IF scheme = <<>> \/ scheme[1] \notin Alpha
                \/ \E i \in 1..Len(scheme) : scheme[i] \notin SchemeChars
        THEN Err("RelativeUrlWithoutBase")
        ELSE IF scheme \in SpecialSchemes /\ SkipSlashes(rest) = <<>>
        THEN Err("EmptyHost")
        ELSE Ok([scheme |-> scheme, rest |-> rest])

\* A mutant: the description of an invalid url does not name the url.
Client_new_no_url(url, token) ==
    LET header == HeaderValue_parse(TokenPrefix \o token)
        base_url == Url_parse(url)
    IN  IF ~header.ok THEN Err(ConfigError(InvalidTokenMessage))
        ELSE IF ~base_url.ok THEN Err(ConfigError(InvalidUrlPrefix))
        ELSE Ok([id |-> url \o token,
                 headers |-> [authorization |-> header.value],
                 base_url |-> base_url.value])

\* github::Client::new.  The id is the hash of the url's bytes followed by
\* the token's, kept here as that byte stream.
Client_new(url, token) ==
    LET header == HeaderValue_parse(TokenPrefix \o token)
        base_url == Url_parse(url)
    IN  IF ~header.ok THEN Err(ConfigError(InvalidTokenMessage))
        ELSE IF ~base_url.ok THEN Err(ConfigError(InvalidUrlPrefix \o url))
        ELSE Ok([id |-> url \o token,
                 headers |-> [authorization |-> header.value],
                 base_url |-> base_url.value])

UrlInputs == Strings({"a", "1", ":"}, MaxUrlLen) \cup {MockUrl, NoHostUrl}
TokenInputs == Strings({"a", " ", "\t", "\n"}, MaxTokenLen)

InitNew ==
    /\ newUrl \in UrlInputs
    /\ newToken \in TokenInputs
    /\ newResult = <<>>
    /\ IdleSearch /\ IdleSend /\ IdleUpdate /\ IdleSprint /\ IdleRequest

NewClient ==
    /\ newResult = <<>>
    /\ newResult' = <<Client_new(newUrl, newToken)>>
    /\ UNCHANGED <<newUrl, newToken, searchVars, sendVars, updateVars, sprintVars, requestVars>>

NextNew == NewClient

NewSpec == InitNew /\ [][NextNew]_vars

\* The token holds a character no header value may hold.
BadToken == \E i \in 1..Len(newToken) : newToken[i] = "\n"
BadUrl == ~Url_parse(newUrl).ok
Built == newResult[1]
IsConfigError(r) == ~r.ok /\ r.error.class = "Config"

\* C7 as stated: an invalid url always gives a description that holds the url.
C7_Original ==
    newResult # <<>> =>
        /\ BadToken =>
              /\ IsConfigError(Built)
              /\ Contains(Built.error.description, AuthorizationHeader)
        /\ BadUrl =>
              /\ IsConfigError(Built)
              /\ Contains(Built.error.description, newUrl)
        /\ (~BadToken /\ ~BadUrl) => Built.ok

\* C7: a token with a character no header value may hold gives a
\* Configuration error that references "Authorization header"; with a valid
\* token, a url that is not a valid absolute URL gives a Configuration error
\* whose description holds the url; a valid url and token give a client.
C7_ConfigErrors ==
    newResult # <<>> =>
        /\ BadToken =>
              /\ IsConfigError(Built)
              /\ Built.error.description = InvalidTokenMessage
              /\ Contains(Built.error.description, AuthorizationHeader)
        /\ (~BadToken /\ BadUrl) =>
              /\ IsConfigError(Built)
              /\ Built.error.description = InvalidUrlPrefix \o newUrl
              /\ Contains(Built.error.description, newUrl)
        /\ (~BadToken /\ ~BadUrl) =>
              /\ Built.ok
              /\ Built.value.headers["authorization"] = TokenPrefix \o newToken

C7_Witness ==
    /\ newResult # <<>>
    /\ ~BadToken /\ newToken # <<>>
    /\ BadUrl /\ Len(newUrl) >= 2
    /\ IsConfigError(Built)
    /\ Contains(Built.error.description, newUrl)

---------------------------------------------------------------------------
(* The issue update and its payload.                                       *)

MaxNumber == 3
MaxAssignees == 2

Logins == {"alice", "bob"}
Numbers == 1..MaxNumber

\* IssueUpdate::default(): no field set.
IssueUpdate_default == [milestone |-> None, assignees |-> None]

\* Every IssueUpdate a caller can build: a field is not set (None), set to a
\* value, or, for the milestone, set to no milestone (Some(None)).
IssueUpdates ==
    [milestone : {None, Some(None)} \cup { Some(Some(n)) : n \in Numbers },
     assignees : {None} \cup { Some(a) : a \in Strings(Logins, MaxAssignees) }]

\* A mutant: a cleared milestone is left out like one that is not set.
Serialize_skip_cleared(u) ==
    [f \in { g \in {"milestone", "assignees"} :
                u[g] # None /\ u[g] # Some(None) } |->
        IF f = "milestone" THEN JNum(u[f][1][1]) ELSE JArr(u[f][1])]

\* serde's Serialize of IssueUpdate: a field that is None is skipped
\* (skip_serializing_if = "Option::is_none"); the value inside is written as
\* JSON, an inner None as null.
Serialize(u) ==
    [f \in { g \in {"milestone", "assignees"} : u[g] # None } |->
        IF f = "milestone"
        THEN (IF u[f][1] = None THEN Null ELSE JNum(u[f][1][1]))
        ELSE JArr(u[f][1])]

\* github::Client::patch_issue: the request it sends.
patch_issue(issue_number, u) ==
    [method |-> "PATCH", issue |-> issue_number, json |-> Serialize(u)]

\* A mutant: None leaves the milestone as it is.
assign_issue_to_milestone_keep(number) ==
    [IssueUpdate_default EXCEPT
        !.milestone = IF number = None THEN None ELSE Some(number)]

\* The update assign_issue_to_milestone builds; `number` is the milestone's
\* number, or None for no milestone.
assign_issue_to_milestone(number) ==
    [IssueUpdate_default EXCEPT !.milestone = Some(number)]

\* The update assign_member_to_issue builds.
assign_member_to_issue(login) ==
    [IssueUpdate_default EXCEPT !.assignees = Some(<<login>>)]

InitUpdate ==
    /\ update = <<>>
    /\ wire = <<>>
    /\ IdleSearch /\ IdleSend /\ IdleNew /\ IdleSprint /\ IdleRequest

\* Client::assign_issue_to_milestone
AssignIssueToMilestone ==
    \E issue_number \in Numbers :
    \E number \in {None} \cup { Some(n) : n \in Numbers } :
        LET u == assign_issue_to_milestone(number) IN
        /\ update' = <<[op |-> "assign_issue_to_milestone", arg |-> number,
                        value |-> u]>>
        /\ wire' = <<patch_issue(issue_number, u)>>
        /\ UNCHANGED <<searchVars, sendVars, newVars, sprintVars, requestVars>>

\* Client::assign_member_to_issue
AssignMemberToIssue ==
    \E issue_number \in Numbers : \E login \in Logins :
        LET u == assign_member_to_issue(login) IN
        /\ update' = <<[op |-> "assign_member_to_issue", arg |-> <<login>>,
                        value |-> u]>>
        /\ wire' = <<patch_issue(issue_number, u)>>
        /\ UNCHANGED <<searchVars, sendVars, newVars, sprintVars, requestVars>>

\* github::Client::patch_issue with an update of the caller's own making.
PatchIssue ==
    \E issue_number \in Numbers : \E u \in IssueUpdates :
        /\ update' = <<[op |-> "patch_issue", arg |-> <<>>, value |-> u]>>
        /\ wire' = <<patch_issue(issue_number, u)>>
        /\ UNCHANGED <<searchVars, sendVars, newVars, sprintVars, requestVars>>

NextUpdate == AssignIssueToMilestone \/ AssignMemberToIssue \/ PatchIssue

UpdateSpec == InitUpdate /\ [][NextUpdate]_vars

Payload == wire[1].json
Sent == update[1]

---------------------------------------------------------------------------
(* create_sprint: a milestone on the issue tracker, then its start date on *)
(* the board.                                                              *)

MaxDate == 2

RepositoryIds == {11, 12}
SprintNumbers == {"7", "8"}
Dates == 1..MaxDate

\* The errors a backend call can end in.
CallErrors ==
    { ReqwestError("transport"),
      GithubError(422, [message |-> "Validation Failed"]),
      ApiError(503) }

\* The milestone the issue tracker creates: its id is not its number.
Milestone(number, title, due_on) ==
    [id |-> 100 + number, number |-> number, title |-> title, due_on |-> due_on]

InitSprint ==
    /\ pc = "start"
    /\ sprintArgs \in [repository : RepositoryIds, sprint_number : SprintNumbers,
                       start_date : Dates, due_on : Dates]
    /\ calls = <<>>
    /\ milestones = {}
    /\ created = <<>>
    /\ ret = <<>>
    /\ IdleSearch /\ IdleSend /\ IdleNew /\ IdleUpdate /\ IdleRequest

\* create_sprint up to the answer of github.create_milestone(..)?
CreateMilestone ==
    /\ pc = "start"
    /\ LET title == <<"Sprint ", sprintArgs.sprint_number>>
           spec == [title |-> Some(title), due_on |-> Some(sprintArgs.due_on)]
           call == [backend |-> "github", op |-> "create_milestone", args |-> spec]
       IN  \/ \E number \in Numbers :
                LET m == Milestone(number, title, sprintArgs.due_on) IN
                /\ calls' = Append(calls, [call |-> call, answer |-> Ok(m)])
                /\ milestones' = milestones \cup {m}
                /\ created' = <<m>>
                /\ pc' = "created"
                /\ ret' = ret
           \/ \E e \in CallErrors :
                /\ calls' = Append(calls, [call |-> call, answer |-> Err(e)])
                /\ ret' = <<Err(e)>>
                /\ pc' = "done"
                /\ UNCHANGED <<milestones, created>>
    /\ UNCHANGED <<sprintArgs, searchVars, sendVars, newVars, updateVars, requestVars>>

\* A mutant: the board is given the milestone's id.
set_start_date_call_by_id(repository, m, start_date) ==
    [backend |-> "zenhub", op |-> "set_start_date",
     args |-> [repository |-> repository, milestone |-> m.id,
               start_date |-> start_date]]

\* The call zenhub.set_start_date(repository.id, milestone.number, &start_date)
set_start_date_call(repository, m, start_date) ==
    [backend |-> "zenhub", op |-> "set_start_date",
     args |-> [repository |-> repository, milestone |-> m.number,
               start_date |-> start_date]]

\* create_sprint from there to its return.
SetStartDate ==
    /\ pc = "created"
    /\ LET call == set_start_date_call(sprintArgs.repository, created[1],
                                       sprintArgs.start_date)
       IN  \/ /\ calls' = Append(calls,
                     [call |-> call, answer |-> Ok(sprintArgs.start_date)])
              /\ ret' = <<Ok([milestone |-> created[1],
                              start_date |-> sprintArgs.start_date])>>
           \/ \E e \in CallErrors :
                /\ calls' = Append(calls, [call |-> call, answer |-> Err(e)])
                /\ ret' = <<Err(e)>>
    /\ pc' = "done"
    /\ UNCHANGED <<sprintArgs, milestones, created>>
    /\ UNCHANGED <<searchVars, sendVars, newVars, updateVars, requestVars>>

NextSprint == CreateMilestone \/ SetStartDate

SprintSpec == InitSprint /\ [][NextSprint]_vars

\* C10: create-milestone is called first and set-start-date second, with the
\* number of the milestone just created; a failed create-milestone is the
\* only call and its error is returned; a failed set-start-date is the last
\* call, its error is returned in place of a Sprint, and the milestone stays.
C10_CreateThenSetStartDate ==
    /\ Len(calls) <= 2
    /\ pc = "start" <=> calls = <<>>
    /\ Len(calls) >= 1 =>
          /\ calls[1].call.backend = "github"
          /\ calls[1].call.op = "create_milestone"
          /\ calls[1].call.args.title = Some(<<"Sprint ", sprintArgs.sprint_number>>)
          /\ calls[1].call.args.due_on = Some(sprintArgs.due_on)
          /\ ~calls[1].answer.ok =>
                /\ Len(calls) = 1
                /\ pc = "done"
                /\ ret = <<Err(calls[1].answer.error)>>
                /\ milestones = {}
          /\ calls[1].answer.ok =>
                /\ milestones = {calls[1].answer.value}
                /\ pc = "created" => (Len(calls) = 1 /\ ret = <<>>)
                /\ pc = "done" => Len(calls) = 2
    /\ Len(calls) = 2 =>
          /\ calls[2].call.backend = "zenhub"
          /\ calls[2].call.op = "set_start_date"
          /\ calls[2].call.args.repository = sprintArgs.repository
          /\ calls[2].call.args.milestone = calls[1].answer.value.number
          /\ calls[2].call.args.start_date = sprintArgs.start_date
          /\ pc = "done"
          /\ IF calls[2].answer.ok
             THEN ret = <<Ok([milestone |-> calls[1].answer.value,
                              start_date |-> calls[2].answer.value])>>
             ELSE ret = <<Err(calls[2].answer.error)>>

C10_Witness ==
    /\ pc = "done"
    /\ Len(calls) = 2
    /\ calls[1].answer.ok
    /\ ~calls[2].answer.ok
    /\ calls[2].answer.error.class = "Api"
    /\ ~ret[1].ok
    /\ milestones # {}

---------------------------------------------------------------------------
(* The requests of the Github client: the target of every operation is     *)
(* base_url.join(..) of a formatted path.                                  *)

MaxPrefix == 2

Owners == {"tommilligan", "acme"}
Repos == {"decadog", "tools"}
Hosts == {"api.github.com", "github.acme.com"}

\* The i-th segment of a base url's path prefix (api/v3/..).
PrefixSegment(i) == IF i = 1 THEN "api" ELSE IF i = 2 THEN "v3" ELSE ToString(i)

\* A Url whose path is the segments after the leading slash; a last segment
\* "" is a trailing slash, so the path of https://host and https://host/ is
\* <<"">>.
HierarchicalUrl(host, path) ==
    [scheme |-> "https", host |-> host, path |-> path, cannot_be_a_base |-> FALSE]

\* A Url Client::new accepts that has no hierarchy (a scheme and an opaque
\* rest, such as a:1).
OpaqueUrl ==
    [scheme |-> "a", host |-> "", path |-> <<"1">>, cannot_be_a_base |-> TRUE]

\* The base urls a client may hold: a host with a path prefix of any depth,
\* with or without a trailing slash, or an opaque url.
BaseUrls ==
    { HierarchicalUrl(h, [i \in 1..d |-> PrefixSegment(i)] \o <<"">>) :
          h \in Hosts, d \in 0..MaxPrefix }
    \cup { HierarchicalUrl(h, [i \in 1..d |-> PrefixSegment(i)]) :
          h \in Hosts, d \in 1..MaxPrefix }
    \cup {OpaqueUrl}

\* A relative reference: its segments, and whether it starts with a slash.
Rooted(segments) == [rooted |-> TRUE, segments |-> segments]
Relative(segments) == [rooted |-> FALSE, segments |-> segments]

\* Error::from(UrlError), by `?`
UrlError(kind) == [class |-> "Url", kind |-> kind]

\* Url::join: a reference that starts with a slash replaces the base's whole
\* path; any other replaces the base's last segment.
Url_join(base, reference) ==
    IF base.cannot_be_a_base THEN Err(UrlError("RelativeUrlWithCannotBeABaseBase"))
    ELSE Ok([base EXCEPT !.path =
                IF reference.rooted THEN reference.segments
                ELSE SubSeq(base.path, 1, Len(base.path) - 1) \o reference.segments])

\* format!("/repos/{}/{}/issues/{}", owner, repo, issue_number)
get_issue_path(owner, repo, issue_number) ==
    Rooted(<<"repos", owner, repo, "issues", ToString(issue_number)>>)
\* format!("/repos/{}/{}", owner, repo)
get_repository_path(owner, repo) == Rooted(<<"repos", owner, repo>>)
\* format!("orgs/{}/members", organisation)
get_members_path(organisation) == Relative(<<"orgs", organisation, "members">>)
\* format!("/repos/{}/{}/milestones", owner, repo)
get_milestones_path(owner, repo) == Rooted(<<"repos", owner, repo, "milestones">>)
\* "search/issues"
search_issues_path == Relative(<<"search", "issues">>)

\* self.request(method, self.base_url.join(path)?)?: the request built, or
\* the error of the join.
request(method, base, path) ==
    LET url == Url_join(base, path) IN
    IF ~url.ok THEN url
    ELSE Ok([method |-> method, url |-> url.value])

InitRequest ==
    /\ baseUrl \in BaseUrls
    /\ operation = <<>>
    /\ sent = <<>>
    /\ IdleSearch /\ IdleSend /\ IdleNew /\ IdleUpdate /\ IdleSprint

\* Client::get_issue
GetIssue ==
    \E owner \in Owners, repo \in Repos, issue_number \in Numbers :
        /\ operation' = <<[name |-> "get_issue",
                           args |-> <<owner, repo, ToString(issue_number)>>]>>
        /\ sent' = <<request("GET", baseUrl,
                             get_issue_path(owner, repo, issue_number))>>
        /\ UNCHANGED <<baseUrl, searchVars, sendVars, newVars, updateVars, sprintVars>>

\* Client::get_repository
GetRepository ==
    \E owner \in Owners, repo \in Repos :
        /\ operation' = <<[name |-> "get_repository", args |-> <<owner, repo>>]>>
        /\ sent' = <<request("GET", baseUrl, get_repository_path(owner, repo))>>
        /\ UNCHANGED <<baseUrl, searchVars, sendVars, newVars, updateVars, sprintVars>>

\* Client::get_members
GetMembers ==
    \E organisation \in Owners :
        /\ operation' = <<[name |-> "get_members", args |-> <<organisation>>]>>
        /\ sent' = <<request("GET", baseUrl, get_members_path(organisation))>>
        /\ UNCHANGED <<baseUrl, searchVars, sendVars, newVars, updateVars, sprintVars>>

\* Client::get_milestones
GetMilestones ==
    \E owner \in Owners, repo \in Repos :
        /\ operation' = <<[name |-> "get_milestones", args |-> <<owner, repo>>]>>
        /\ sent' = <<request("GET", baseUrl, get_milestones_path(owner, repo))>>
        /\ UNCHANGED <<baseUrl, searchVars, sendVars, newVars, updateVars, sprintVars>>

\* Client::patch_issue
PatchIssueAt ==
    \E owner \in Owners, repo \in Repos, issue_number \in Numbers :
        /\ operation' = <<[name |-> "patch_issue",
                           args |-> <<owner, repo, ToString(issue_number)>>]>>
        /\ sent' = <<request("PATCH", baseUrl,
                             get_issue_path(owner, repo, issue_number))>>
        /\ UNCHANGED <<baseUrl, searchVars, sendVars, newVars, updateVars, sprintVars>>

\* Client::search_issues
SearchIssuesAt ==
    /\ operation' = <<[name |-> "search_issues", args |-> <<>>]>>
    /\ sent' = <<request("GET", baseUrl, search_issues_path)>>
    /\ UNCHANGED <<baseUrl, searchVars, sendVars, newVars, updateVars, sprintVars>>

NextRequest ==
    \/ GetIssue \/ GetRepository \/ GetMembers
    \/ GetMilestones \/ PatchIssueAt \/ SearchIssuesAt

RequestSpec == InitRequest /\ [][NextRequest]_vars

\* The path segments of an operation, as the backend lays them out.
SegmentsOf(op) ==
    CASE op.name \in {"get_issue", "patch_issue"} ->
            <<"repos", op.args[1], op.args[2], "issues", op.args[3]>>
      [] op.name = "get_repository" -> <<"repos", op.args[1], op.args[2]>>
      [] op.name = "get_members" -> <<"orgs", op.args[1], "members">>
      [] op.name = "get_milestones" ->
            <<"repos", op.args[1], op.args[2], "milestones">>
      [] op.name = "search_issues" -> <<"search", "issues">>

\* The segments of a path, its trailing slash aside.
Named(path) == SelectSeq(path, LAMBDA seg : seg # "")

\* The base url followed by the segments: one slash between any two.
Followed(base, segments) == [base EXCEPT !.path = Named(base.path) \o segments]

Called == sent # <<>>
LastSent == sent[1]
LastOperation == operation[1]

\* C11: for every operation and every base url, a path prefix included,
\* the request goes to the base url followed by the operation's segments,
\* and a join that fails is an error and no request.
C11_BaseUrlKept ==
    Called =>
        IF baseUrl.cannot_be_a_base
        THEN ~LastSent.ok /\ LastSent.error.class = "Url"
        ELSE /\ LastSent.ok
             /\ LastSent.value.url = Followed(baseUrl, SegmentsOf(LastOperation))

\* What holds of the code: a base url without a path prefix is kept by
\* every operation, one with a prefix and a trailing slash by get_members
\* and search_issues alone.
RequestsAsBuilt ==
    Called =>
        IF baseUrl.cannot_be_a_base
        THEN ~LastSent.ok /\ LastSent.error.class = "Url"
        ELSE /\ LastSent.ok
             /\ LastSent.value.url.host = baseUrl.host
             /\ (\/ Named(baseUrl.path) = <<>>
                 \/ /\ LastOperation.name \in {"get_members", "search_issues"}
                    /\ baseUrl.path[Len(baseUrl.path)] = "")
                => LastSent.value.url = Followed(baseUrl, SegmentsOf(LastOperation))
             /\ (LastOperation.name \notin {"get_members", "search_issues"})
                => LastSent.value.url.path = SegmentsOf(LastOperation)

====
